---- MODULE Spec2Model ----
(***************************************************************************)
(* ffi-helpers (src/lib.rs): target classification, SDK resolution, clang  *)
(* argument assembly and recursive framework linking.                      *)
(*                                                                         *)
(* Rust strings are TLA+ strings; String::contains, ==, format! and        *)
(* str::trim are computed on their characters.  Each action is one call of *)
(* a public function; the call's inputs, everything it did to the outside  *)
(* world (commands run, lines printed) and how it ended are recorded in    *)
(* the state.                                                              *)
(***************************************************************************)
EXTENDS Integers, Sequences, FiniteSets, TLC

VARIABLES
    \* the world the build script runs in
    env_TARGET,     \* the TARGET environment variable: Some(string) or None
    CPP_VERSION,    \* the -std flag selected by the cpp-11/14/17 feature
    tool,           \* how the SDK locator ends when it is run
    walk,           \* what walking link_dir yields, in the walk's order
    \* the arguments the build script passes
    arg_includes, arg_apple_args, arg_android_args,
    arg_link_dir, arg_filters,
    \* the last call and what it did
    call,           \* name of the function called last ("" before any call)
    ret,            \* how it ended: Returned(value) or Panicked(message)
    sdk_calls,      \* triples sdk_path was called with during it
    commands,       \* command lines it spawned
    stdout,         \* lines it printed
    detected        \* every value TargetOs::detect has returned so far

world == <<env_TARGET, CPP_VERSION, tool, walk>>
arguments == <<arg_includes, arg_apple_args, arg_android_args, arg_link_dir,
               arg_filters>>
vars == <<world, arguments, call, ret, sdk_calls, commands, stdout, detected>>

----------------------------------------------------------------------------
(* Bounds of the explored inputs. *)

MaxIncludes == 2
MaxExtras == 2
MaxEntries == 3

----------------------------------------------------------------------------
(* Option<T> and the outcome of a call. *)

None == [some |-> FALSE]
Some(v) == [some |-> TRUE, v |-> v]

Returned(v) == [kind |-> "returned", v |-> v]
Panicked(why) == [kind |-> "panicked", why |-> why]

\* What a call did besides ending: out is Returned/Panicked.
Effect(out, sdks, cmds) == [out |-> out, sdk_calls |-> sdks, commands |-> cmds]

----------------------------------------------------------------------------
(* String primitives. *)

\* str::contains(pat) for a non-empty pattern
Contains(s, pat) ==
    \E i \in 1..(Len(s) - Len(pat) + 1) : SubSeq(s, i, i + Len(pat) - 1) = pat

IsWhite(c) == c \in {" ", "\n", "\t", "\r"}

\* str::trim: drop leading and trailing whitespace
RECURSIVE TrimStart(_)
TrimStart(s) ==
    IF Len(s) > 0 /\ IsWhite(SubSeq(s, 1, 1))
    THEN TrimStart(SubSeq(s, 2, Len(s)))
    ELSE s

RECURSIVE TrimEnd(_)
TrimEnd(s) ==
    IF Len(s) > 0 /\ IsWhite(SubSeq(s, Len(s), Len(s)))
    THEN TrimEnd(SubSeq(s, 1, Len(s) - 1))
    ELSE s

trim(s) == TrimEnd(TrimStart(s))

----------------------------------------------------------------------------
(* Input domains. *)

CppVersions == {"-std=c++11", "-std=c++14", "-std=c++17"}

Triples ==
    { "aarch64-apple-ios", "armv7-apple-ios", "x86_64-apple-ios",
      "i386-apple-ios", "x86_64-apple-darwin", "aarch64-apple-darwin",
      "aarch64-apple-ios-sim", "x86_64-apple-ios-macabi",
      "aarch64-apple-tvos", "aarch64-linux-android",
      "x86_64-unknown-linux-gnu", "arm-unknown-ios",
      "x86_64-apple-android", "" }

SeqsUpTo(S, n) == UNION {[1..k -> S] : k \in 0..n}
Prefixes(s, n) == {SubSeq(s, 1, k) : k \in 0..(IF n < Len(s) THEN n ELSE Len(s))}

IncludeDirs == {"/usr/local/inc", "/opt/inc"}
IncludeLists == SeqsUpTo(IncludeDirs, MaxIncludes)
AppleArgLists ==
    Prefixes(<<"-fobjc-arc", "-DAPPLE", "-F/Library/Frameworks", "-v">>,
             MaxExtras)
AndroidArgLists ==
    Prefixes(<<"-fPIC", "-DANDROID", "--sysroot=/ndk", "-w">>, MaxExtras)

\* Outcomes of running the SDK locator: failure, or success with its stdout.
ToolFailed == [ok |-> FALSE, stdout |-> ""]
ToolPrinted(s) == [ok |-> TRUE, stdout |-> s]
ToolOutcomes ==
    {ToolFailed, ToolPrinted("/SDKs/Sdk.sdk\n"), ToolPrinted(" /sdk dir \r\n")}

----------------------------------------------------------------------------
(* target() *)

target(env) ==
    IF env.some THEN Returned(env.v) ELSE Panicked("env")

(* TargetOs::detect(), after target() returned t *)

Ios(t) == [os |-> "Ios", triple |-> t]
Android(t) == [os |-> "Android", triple |-> t]
MacOs(t) == [os |-> "MacOs", triple |-> t]

detect_mut(t) ==
    IF Contains(t, "apple") THEN Some(MacOs(t))
    ELSE IF Contains(t, "ios") THEN Some(Ios(t))
    ELSE IF Contains(t, "android") THEN Some(Android(t))
    ELSE None

detect(t) ==
    IF Contains(t, "ios") THEN Some(Ios(t))
    ELSE IF Contains(t, "apple") THEN Some(MacOs(t))
    ELSE IF Contains(t, "android") THEN Some(Android(t))
    ELSE None

----------------------------------------------------------------------------
(* sdk_path(target) *)

sdk_kind_mut(t) ==
    IF Contains(t, "apple-darwin") THEN Some("macosx")
    ELSE IF Contains(t, "x86_64-apple-ios") \/ Contains(t, "i386-apple-ios")
    THEN Some("iphonesimulator")
    ELSE IF Contains(t, "aarch64-apple-ios") \/ Contains(t, "armv7-apple-ios")
    THEN Some("iphoneos")
    ELSE None

\* the `let sdk = if ... else { return None }` selection
sdk_kind(t) ==
    IF Contains(t, "apple-darwin") THEN Some("macosx")
    ELSE IF t = "x86_64-apple-ios" \/ t = "i386-apple-ios"
    THEN Some("iphonesimulator")
    ELSE IF t = "aarch64-apple-ios" \/ t = "armv7-apple-ios"
    THEN Some("iphoneos")
    ELSE None

\* bossy::Command::impure("xcrun").with_args(["--sdk", sdk, "--show-sdk-path"])
xcrun(sdk) == <<"xcrun", "--sdk", sdk, "--show-sdk-path">>

\* run_and_wait_for_str(|s| s.trim().to_string()).expect(..), the command
\* having ended as `t`
run_xcrun_mut(sdk, t) ==
    IF t.ok
    THEN Effect(Returned(Some(trim(t.stdout))), <<>>, <<xcrun(sdk)>>)
    ELSE Effect(Returned(None), <<>>, <<xcrun(sdk)>>)

run_xcrun(sdk, t) ==
    IF t.ok
    THEN Effect(Returned(Some(trim(t.stdout))), <<>>, <<xcrun(sdk)>>)
    ELSE Effect(Panicked("xcrun command failed"), <<>>, <<xcrun(sdk)>>)

sdk_path(t, tl) ==
    LET sdk == sdk_kind(t)
        run == IF sdk.some THEN run_xcrun(sdk.v, tl)
                           ELSE Effect(Returned(None), <<>>, <<>>)
    IN  Effect(run.out, <<t>>, run.commands)

----------------------------------------------------------------------------
(* default_clang_args(includes, apple_args, android_args) *)

\* let mut args = vec![...]
base_args(cpp) == <<"-xc++", "-stdlib=libc++", cpp>>

\* the body of `if target.contains("apple")` once sdk_path returned `sdk`
push_apple_mut(args, sdk, apple_args) ==
    args \o apple_args \o (IF sdk.some THEN <<"-isysroot", sdk.v>> ELSE <<>>)

push_apple(args, sdk, apple_args) ==
    (args \o (IF sdk.some THEN <<"-isysroot", sdk.v>> ELSE <<>>)) \o apple_args

\* if target.contains("android") { ... }
push_android_mut(args, t, android_args) ==
    args \o android_args

push_android(args, t, android_args) ==
    IF Contains(t, "android") THEN args \o android_args ELSE args

\* the rust-bindgen#1211 correction of the triple
bindgen_target_mut(t) ==
    IF Contains(t, "aarch64-apple-ios") THEN "arm64-apple-ios" ELSE t

bindgen_target(t) ==
    IF t = "aarch64-apple-ios" THEN "arm64-apple-ios" ELSE t

\* includes.iter().for_each(|include| args.push(format!("-I{}", include)))
push_includes_mut(args, includes) ==
    args \o [i \in 1..Len(includes) |->
                "-I" \o includes[Len(includes) + 1 - i]]

push_includes(args, includes) ==
    args \o [i \in 1..Len(includes) |-> "-I" \o includes[i]]

\* args.push(format!("--target={}", target))
push_target(args, t) == Append(args, "--target=" \o t)

default_clang_args(env, cpp, includes, apple_args, android_args, tl) ==
    LET tg == target(env) IN
    IF tg.kind = "panicked" THEN Effect(tg, <<>>, <<>>)
    ELSE
    LET t == tg.v
        args0 == base_args(cpp)
        apple == Contains(t, "apple")
        sdk == IF apple THEN sdk_path(t, tl)
                        ELSE Effect(Returned(None), <<>>, <<>>)
    IN  IF sdk.out.kind = "panicked" THEN sdk
        ELSE
        LET args1 == IF apple THEN push_apple(args0, sdk.out.v, apple_args)
                              ELSE args0
            args2 == push_android(args1, t, android_args)
            t2 == bindgen_target(t)
            args3 == push_includes(args2, includes)
        IN  Effect(Returned(push_target(args3, t2)),
                   sdk.sdk_calls, sdk.commands)

----------------------------------------------------------------------------
(* recursive_link_dir(link_dir, filters)                                   *)
(*                                                                         *)
(* A path is the sequence of its components, each an OsStr.  In an OsStr   *)
(* the character Invalid stands for bytes that are not valid UTF-8.        *)

Invalid == "~"

\* OsStr::to_str
to_str(os) == IF Contains(os, Invalid) THEN None ELSE Some(os)

\* Display of an OsStr (lossy: invalid bytes become U+FFFD, written "?")
RECURSIVE lossy(_)
lossy(os) ==
    IF os = "" THEN ""
    ELSE (IF SubSeq(os, 1, 1) = Invalid THEN "?" ELSE SubSeq(os, 1, 1))
         \o lossy(SubSeq(os, 2, Len(os)))

\* Path::display of a relative path
RECURSIVE display(_)
display(path) ==
    IF path = <<>> THEN ""
    ELSE IF Len(path) = 1 THEN lossy(path[1])
    ELSE lossy(path[1]) \o "/" \o display(Tail(path))

\* Path::parent of a path ending in a normal component
parent(path) == SubSeq(path, 1, Len(path) - 1)

\* position of the last '.' of a file name, 0 if it has none
LastDot(name) ==
    LET dots == {i \in 1..Len(name) : SubSeq(name, i, i) = "."}
    IN  IF dots = {} THEN 0 ELSE CHOOSE i \in dots : \A j \in dots : j <= i

\* Path::extension: after the last '.', unless the name has none or only
\* starts with one
extension(path) ==
    LET name == path[Len(path)]
        i == LastDot(name)
    IN  IF i <= 1 THEN None ELSE Some(SubSeq(name, i + 1, Len(name)))

\* Path::file_stem: before the last '.', or the whole name
file_stem(path) ==
    LET name == path[Len(path)]
        i == LastDot(name)
    IN  IF i <= 1 THEN name ELSE SubSeq(name, 1, i - 1)

\* The first filter closure on the components from position i on:
\* "keep", "drop" (a component equals a filter) or "panic" (to_str failed).
\* A component is converted once per filter compared with it, so never
\* when there is no filter.
RECURSIVE component_filter(_, _, _)
component_filter(path, fs, i) ==
    IF i > Len(path) \/ fs = {} THEN "keep"
    ELSE IF ~to_str(path[i]).some THEN "panic"
    ELSE IF path[i] \in fs THEN "drop"
    ELSE component_filter(path, fs, i + 1)

\* The second filter closure
is_framework(path) ==
    LET e == extension(path) IN e.some /\ e.v = "framework"

\* The iterator chain up to collect(): the entries kept, or a panic
RECURSIVE collect_frameworks(_, _, _)
collect_frameworks(items, fs, acc) ==
    IF items = <<>> THEN Returned(acc)
    ELSE LET e == Head(items) IN
         IF ~e.ok THEN collect_frameworks(Tail(items), fs, acc)
         ELSE LET c == component_filter(e.path, fs, 1) IN
              IF c = "panic" THEN Panicked("to_str")
              ELSE IF c = "keep" /\ is_framework(e.path)
              THEN collect_frameworks(Tail(items), fs, Append(acc, e.path))
              ELSE collect_frameworks(Tail(items), fs, acc)

\* The printing loop: [out, stdout]
RECURSIVE print_frameworks(_, _)
print_frameworks(frameworks, lines) ==
    IF frameworks = <<>> THEN [out |-> Returned(<<>>), stdout |-> lines]
    ELSE LET path == Head(frameworks)
             search == "cargo:rustc-link-search=framework="
                         \o display(parent(path))
             stem == to_str(file_stem(path))
         IN  IF ~stem.some
             THEN [out |-> Panicked("to_str"),
                   stdout |-> Append(lines, search)]
             ELSE print_frameworks(Tail(frameworks),
                     lines \o <<search,
                                "cargo:rustc-link-lib=framework=" \o stem.v>>)

recursive_link_dir(items, fs) ==
    LET frameworks == collect_frameworks(items, fs, <<>>) IN
    IF frameworks.kind = "panicked"
    THEN [out |-> frameworks, stdout |-> <<>>]
    ELSE print_frameworks(frameworks.v, <<>>)

----------------------------------------------------------------------------
(* Directory trees.  WalkDir yields link_dir itself first, then entries    *)
(* below it, a directory before its contents; an item is an entry          *)
(* (ok, with its path, link_dir included) or an error.                     *)

LinkDirs == {<<"libs">>, <<"excluded">>, <<"Sdk.framework">>}

FilterSets == {{}, {"excluded"}, {"excluded", "Headers"}}

RelPaths ==
    { <<"A.framework">>, <<"excluded">>, <<"excluded", "B.framework">>,
      <<"notes.txt">>, <<".framework">>, <<"~">>, <<"C~.framework">> }

Item(ok, path) == [ok |-> ok, path |-> path]

\* below: sequences of [ok, rel]; rel paths distinct, a path only after its
\* parent directory was yielded as an entry
WellFormed(below) ==
    /\ \A i, j \in 1..Len(below) : i # j => below[i].rel # below[j].rel
    /\ \A i \in 1..Len(below) :
          Len(below[i].rel) > 1 =>
              \E j \in 1..(i - 1) :
                  below[j].ok /\ below[j].rel = parent(below[i].rel)

Walks(root) ==
    {<<Item(FALSE, root)>>} \cup
    { <<Item(TRUE, root)>> \o
          [i \in 1..Len(below) |-> Item(below[i].ok, root \o below[i].rel)] :
      below \in { b \in SeqsUpTo([ok : BOOLEAN, rel : RelPaths], MaxEntries) :
                     WellFormed(b) } }

----------------------------------------------------------------------------
(* State machine: one action per public function. *)

NoResult ==
    /\ call = ""
    /\ ret = Returned(<<>>)
    /\ sdk_calls = <<>>
    /\ commands = <<>>
    /\ stdout = <<>>
    /\ detected = {}

\* A build script about to generate bindings
Init ==
    /\ env_TARGET \in {Some(t) : t \in Triples} \cup {None}
    /\ CPP_VERSION \in CppVersions
    /\ tool \in ToolOutcomes
    /\ arg_includes \in IncludeLists
    /\ arg_apple_args \in AppleArgLists
    /\ arg_android_args \in AndroidArgLists
    /\ arg_link_dir = <<>>
    /\ arg_filters = {}
    /\ walk = <<>>
    /\ NoResult

\* A build script about to link the frameworks under a directory
InitLink ==
    /\ env_TARGET = None
    /\ CPP_VERSION = "-std=c++17"
    /\ tool = ToolFailed
    /\ arg_includes = <<>>
    /\ arg_apple_args = <<>>
    /\ arg_android_args = <<>>
    /\ arg_link_dir \in LinkDirs
    /\ arg_filters \in FilterSets
    /\ walk \in Walks(arg_link_dir)
    /\ NoResult

\* a panic ends the build script
Running == ret.kind # "panicked"

Target ==
    /\ Running
    /\ call' = "target"
    /\ ret' = target(env_TARGET)
    /\ sdk_calls' = <<>>
    /\ commands' = <<>>
    /\ stdout' = <<>>
    /\ UNCHANGED <<world, arguments, detected>>

Detect ==
    LET tg == target(env_TARGET) IN
    /\ Running
    /\ call' = "detect"
    /\ ret' = IF tg.kind = "panicked" THEN tg ELSE Returned(detect(tg.v))
    /\ detected' = IF tg.kind = "panicked" THEN detected
                   ELSE detected \cup {detect(tg.v)}
    /\ sdk_calls' = <<>>
    /\ commands' = <<>>
    /\ stdout' = <<>>
    /\ UNCHANGED <<world, arguments>>

\* sdk_path(&triple) for the triple being built for
SdkPath ==
    /\ Running
    /\ env_TARGET.some
    /\ LET e == sdk_path(env_TARGET.v, tool) IN
        /\ call' = "sdk_path"
        /\ ret' = e.out
        /\ sdk_calls' = e.sdk_calls
        /\ commands' = e.commands
    /\ stdout' = <<>>
    /\ UNCHANGED <<world, arguments, detected>>

DefaultClangArgs ==
    /\ Running
    /\ LET e == default_clang_args(env_TARGET, CPP_VERSION, arg_includes,
                                   arg_apple_args, arg_android_args, tool)
       IN
        /\ call' = "default_clang_args"
        /\ ret' = e.out
        /\ sdk_calls' = e.sdk_calls
        /\ commands' = e.commands
    /\ stdout' = <<>>
    /\ UNCHANGED <<world, arguments, detected>>

RecursiveLinkDir ==
    /\ Running
    /\ LET e == recursive_link_dir(walk, arg_filters) IN
        /\ call' = "recursive_link_dir"
        /\ ret' = e.out
        /\ stdout' = e.stdout
    /\ sdk_calls' = <<>>
    /\ commands' = <<>>
    /\ UNCHANGED <<world, arguments, detected>>

Next ==
    \/ Target
    \/ Detect
    \/ SdkPath
    \/ DefaultClangArgs

Spec == Init /\ [][Next]_vars

NextLink == RecursiveLinkDir

SpecLink == InitLink /\ [][NextLink]_vars

----------------------------------------------------------------------------
(* Vocabulary of the properties. *)

T == env_TARGET.v

Fixed == <<"-xc++", "-stdlib=libc++", CPP_VERSION>>

Called(fn) == call = fn
Done(fn) == call = fn /\ ret.kind = "returned"

SimulatorTriples == {"x86_64-apple-ios", "i386-apple-ios"}
DeviceTriples == {"aarch64-apple-ios", "armv7-apple-ios"}

\* the SDK kind a triple has: "" for none
KindOf(t) ==
    IF t \in SimulatorTriples THEN "iphonesimulator"
    ELSE IF t \in DeviceTriples THEN "iphoneos"
    ELSE IF Contains(t, "apple-darwin") THEN "macosx"
    ELSE ""

\* the command line that asks for the path of SDK `kind`
Lookup(kind) == <<"xcrun", "--sdk", kind, "--show-sdk-path">>

\* p is s without its leading and trailing whitespace
IsTrimmed(p, s) ==
    \E i \in 1..(Len(s) + 1), j \in 0..Len(s) :
        /\ p = SubSeq(s, i, j)
        /\ \A k \in (1..(i - 1)) \cup ((j + 1)..Len(s)) :
              SubSeq(s, k, k) \in {" ", "\t", "\r", "\n"}
        /\ i <= j => /\ SubSeq(s, i, i) \notin {" ", "\t", "\r", "\n"}
                     /\ SubSeq(s, j, j) \notin {" ", "\t", "\r", "\n"}

Count(seq, x) == Cardinality({i \in 1..Len(seq) : seq[i] = x})

Elems(seq) == {seq[i] : i \in 1..Len(seq)}

----------------------------------------------------------------------------
(* C1: the list default_clang_args returns is, in this order, the three    *)
(* language/standard flags, the sysroot pair if any, the platform extras,  *)
(* one "-I<dir>" per include in input order, and "--target=..." last; no   *)
(* include is dropped, duplicated or reordered.                            *)
C1_GroupOrder ==
    Done("default_clang_args") =>
        LET r == ret.v
            n == Len(r)
            k == Len(arg_includes)
        IN  /\ n >= 3 + k + 1
            /\ SubSeq(r, 1, 3) = Fixed
            /\ SubSeq(r[n], 1, 9) = "--target="
            /\ \A i \in 1..k : r[n - 1 - k + i] = "-I" \o arg_includes[i]
            /\ LET mid == SubSeq(r, 4, n - 1 - k) IN
               \E s \in {0, 2} :
                  /\ s <= Len(mid)
                  /\ s = 2 => mid[1] = "-isysroot"
                  /\ SubSeq(mid, s + 1, Len(mid)) \in
                        {<<>>, arg_apple_args, arg_android_args,
                         arg_apple_args \o arg_android_args}

C1_Witness ==
    /\ Done("default_clang_args")
    /\ Len(arg_includes) = 2 /\ arg_includes[1] # arg_includes[2]
    /\ Len(arg_apple_args) = 2
    /\ ret.v[4] = "-isysroot"
    /\ Len(ret.v) = 3 + 2 + 2 + 2 + 1

(* C2: for the triple "aarch64-apple-ios" the last element is              *)
(* "--target=arm64-apple-ios" while the SDK lookup of the same call gets   *)
(* the original triple and resolves "iphoneos"; for every other triple T   *)
(* the last element is "--target=T".                                       *)
C2_TripleCorrection ==
    /\ (Called("default_clang_args") /\ env_TARGET.some
            /\ T = "aarch64-apple-ios") =>
          /\ sdk_calls = <<"aarch64-apple-ios">>
          /\ commands = <<Lookup("iphoneos")>>
    /\ Done("default_clang_args") =>
          ret.v[Len(ret.v)] =
              IF T = "aarch64-apple-ios" THEN "--target=arm64-apple-ios"
                                         ELSE "--target=" \o T

C2_Witness ==
    /\ Done("default_clang_args")
    /\ T = "aarch64-apple-ios"
    /\ ret.v[Len(ret.v)] = "--target=arm64-apple-ios"
    /\ sdk_calls = <<"aarch64-apple-ios">>

(* C3: for every triple TargetOs::detect classifies as iOS or macOS,       *)
(* default_clang_args consults the SDK resolver with that triple and       *)
(* appends apple_extra, in order and unchanged, after the sysroot pair if  *)
(* there is one, right after the fixed flags otherwise.                    *)
C3_AppleExtrasWhenClassifiedApple ==
    (Called("default_clang_args") /\ env_TARGET.some
        /\ detect(T).some /\ detect(T).v.os \in {"Ios", "MacOs"}) =>
        /\ sdk_calls = <<T>>
        /\ ret.kind = "returned" =>
              LET s == IF ret.v[4] = "-isysroot" /\ commands # <<>>
                       THEN 2 ELSE 0
              IN  /\ Len(ret.v) >= 3 + s + Len(arg_apple_args) + 1
                  /\ SubSeq(ret.v, 4 + s, 3 + s + Len(arg_apple_args))
                        = arg_apple_args

(* C4: android_extra is appended exactly when the classifier classifies    *)
(* the triple as Android; a triple classified as iOS or macOS contributes  *)
(* no android_extra string, and no output holds both extras groups.        *)
C4_AndroidExtrasIffClassifiedAndroid ==
    Done("default_clang_args") =>
        LET r == ret.v
            n == Len(r)
            k == Len(arg_includes)
            a == Len(arg_android_args)
            isAndroid == detect(T).some /\ detect(T).v.os = "Android"
        IN  IF isAndroid
            THEN /\ n >= 3 + a + k + 1
                 /\ SubSeq(r, n - k - a, n - k - 1) = arg_android_args
                 /\ Elems(r) \cap Elems(arg_apple_args) = {}
            ELSE Elems(r) \cap Elems(arg_android_args) = {}

(* C5: TargetOs::detect is total and first-match-wins: Ios(T) iff T        *)
(* contains "ios"; MacOs(T) iff it contains "apple" and not "ios";         *)
(* Android(T) iff it contains "android" and neither of the others; None    *)
(* otherwise; the variant carries T unchanged, and classifying again       *)
(* gives the same outcome.                                                 *)
C5_Classification ==
    Done("detect") =>
        LET r == ret.v
            ios == Contains(T, "ios")
            apple == Contains(T, "apple")
            android == Contains(T, "android")
        IN  /\ (r = Some([os |-> "Ios", triple |-> T])) <=> ios
            /\ (r = Some([os |-> "MacOs", triple |-> T])) <=> (apple /\ ~ios)
            /\ (r = Some([os |-> "Android", triple |-> T]))
                   <=> (android /\ ~ios /\ ~apple)
            /\ (r = None) <=> (~ios /\ ~apple /\ ~android)
            /\ detected = {r}

C5_Witness ==
    /\ Done("detect")
    /\ Contains(T, "ios") /\ Contains(T, "apple")
    /\ ret.v = Some([os |-> "Ios", triple |-> T])

(* C6: sdk_path maps the two simulator triples to "iphonesimulator", the   *)
(* two device triples to "iphoneos", triples containing "apple-darwin" to  *)
(* "macosx"; for any other triple it returns None without running the      *)
(* tool; otherwise it runs the tool with exactly that kind and returns its *)
(* trimmed output.                                                         *)
C6_SdkKind ==
    Called("sdk_path") =>
        /\ sdk_calls = <<T>>
        /\ IF KindOf(T) = ""
           THEN commands = <<>> /\ ret = Returned(None)
           ELSE /\ commands = <<Lookup(KindOf(T))>>
                /\ tool.ok =>
                      /\ ret.kind = "returned" /\ ret.v.some
                      /\ IsTrimmed(ret.v.v, tool.stdout)

C6_Witness ==
    /\ Done("sdk_path")
    /\ T \in SimulatorTriples
    /\ commands = <<Lookup("iphonesimulator")>>
    /\ ret.v.some /\ ret.v.v # tool.stdout

(* C7: for a triple the classifier leaves unrecognized, whatever the       *)
(* extras, the output is exactly the three fixed flags, one include flag   *)
(* per include and "--target=T" with the uncorrected triple; the SDK       *)
(* resolver is not queried.                                                *)
C7_Unrecognized ==
    (Called("default_clang_args") /\ env_TARGET.some /\ ~detect(T).some) =>
        /\ ret = Returned(Fixed
                    \o [i \in 1..Len(arg_includes) |-> "-I" \o arg_includes[i]]
                    \o <<"--target=" \o T>>)
        /\ Len(ret.v) = 3 + Len(arg_includes) + 1
        /\ sdk_calls = <<>>
        /\ commands = <<>>

C7_Witness ==
    /\ Done("default_clang_args")
    /\ T = "x86_64-unknown-linux-gnu"
    /\ arg_apple_args # <<>> /\ arg_android_args # <<>>
    /\ Len(arg_includes) = 2
    /\ Len(ret.v) = 6

(* C8: when an SDK kind is determined and the tool fails, sdk_path and     *)
(* default_clang_args panic and return nothing; the tool is run at most    *)
(* once per call; with no SDK kind the resolver causes no panic.           *)
C8_ToolFailureFatal ==
    ((Called("sdk_path") \/ Called("default_clang_args")) /\ env_TARGET.some)
    =>  /\ Len(commands) <= 1
        /\ (KindOf(T) # "" /\ ~tool.ok) =>
              /\ ret.kind = "panicked"
              /\ commands = <<Lookup(KindOf(T))>>
        /\ KindOf(T) = "" => ret.kind = "returned" /\ commands = <<>>

C8_Witness ==
    /\ Called("default_clang_args")
    /\ ret.kind = "panicked"
    /\ env_TARGET.some
    /\ KindOf(T) = "iphoneos"
    /\ Len(commands) = 1

(* C10: default_clang_args emits ("-isysroot", path) exactly when the      *)
(* triple has an SDK kind, once, at positions 4 and 5, the path being the  *)
(* resolver's result; every triple with an SDK kind contains "apple"; a    *)
(* triple containing "apple" without SDK kind gets no pair and apple_extra *)
(* starts at position 4.                                                   *)
C10_SysrootPair ==
    Done("default_clang_args") =>
        LET r == ret.v IN
        /\ KindOf(T) # "" => Contains(T, "apple")
        /\ IF KindOf(T) # ""
           THEN /\ r[4] = "-isysroot"
                /\ IsTrimmed(r[5], tool.stdout)
                /\ Count(r, "-isysroot") = 1
           ELSE /\ Count(r, "-isysroot") = 0
                /\ Contains(T, "apple") =>
                      SubSeq(r, 4, 3 + Len(arg_apple_args)) = arg_apple_args

C10_Witness ==
    /\ Done("default_clang_args")
    /\ T = "aarch64-apple-ios-sim"
    /\ arg_apple_args # <<>>
    /\ ret.v[4] = arg_apple_args[1]

----------------------------------------------------------------------------
(* Properties of recursive_link_dir. *)

Qualifies(item) ==
    /\ item.ok
    /\ \A i \in 1..Len(item.path) : item.path[i] \notin arg_filters
    /\ LET name == item.path[Len(item.path)] IN
       /\ Len(name) > 10
       /\ SubSeq(name, Len(name) - 9, Len(name)) = ".framework"

Directives(item) ==
    LET name == item.path[Len(item.path)] IN
    << "cargo:rustc-link-search=framework="
           \o display(SubSeq(item.path, 1, Len(item.path) - 1)),
       "cargo:rustc-link-lib=framework="
           \o lossy(SubSeq(name, 1, Len(name) - 10)) >>

\* what was printed is one adjacent pair per qualifying entry, nothing else
DirectivesAsClaimed ==
    LET q == {i \in 1..Len(walk) : Qualifies(walk[i])} IN
    /\ ret.kind = "returned"
    /\ Len(stdout) = 2 * Cardinality(q)
    /\ \A i \in q :
          \E k \in 1..Cardinality(q) :
              <<stdout[2 * k - 1], stdout[2 * k]>> = Directives(walk[i])

(* C9: recursive_link_dir prints one directive pair (link-search of the    *)
(* parent, then link-lib of the base name) for exactly the entries read    *)
(* successfully, with no path component in the filter set and extension    *)
(* "framework"; no other entry contributes or stops the walk.              *)
C9_FrameworkDirectives ==
    Called("recursive_link_dir") => DirectivesAsClaimed

\* every name the walk yields is valid UTF-8
UnicodeNames ==
    \A i \in 1..Len(walk) :
        \A j \in 1..Len(walk[i].path) : ~Contains(walk[i].path[j], Invalid)

(* Where C9 does hold: on trees whose names are all valid UTF-8.           *)
LinkDirectivesWhenUnicode ==
    (Called("recursive_link_dir") /\ UnicodeNames) => DirectivesAsClaimed

LinkDirectivesWhenUnicode_Witness ==
    /\ Called("recursive_link_dir")
    /\ UnicodeNames
    /\ arg_filters # {}
    /\ Len(walk) = 4
    /\ Len(stdout) = 2

====
